---- MODULE Spec2Model ----
(***************************************************************************)
(* A model of src-tauri/src/superdough.rs: the construction of one voice   *)
(* (Synth or Sampler) on a web-audio graph from a note message.            *)
(*                                                                         *)
(* Units.  The source computes in f64/f32; the model computes in integers: *)
(*   times (f64 seconds)            in milliseconds     (0.001 s  = 1)     *)
(*   gain values (f32)              in millionths       (0.000001 = 1)     *)
(*   velocity (f32)                 in tenths           (1.0      = 10)    *)
(*   ADSR sustain (f32)             in 1/100000         (0.00001  = 1)     *)
(*   frequencies (f32 Hz)           in hertz                               *)
(*   filter-envelope sustain (f64)  in tenths           (1.0      = 10)    *)
(*   filter-envelope env (f64)      in whole octaves                       *)
(*   begin (fraction of the buffer) in tenths           (1.0      = 10)    *)
(* so that velocity * sustain is a gain in millionths.  Rounding of the    *)
(* floating-point operations is not modelled, except that a power of two   *)
(* with a half-integer exponent is a four-digit fixed-point number.        *)
(***************************************************************************)
EXTENDS Integers, Sequences, FiniteSets, TLC

VARIABLES
    clock,   \* the AudioContext's current time
    nodes,   \* the AudioContext's nodes, in creation order; a node's id is its index
    edges,   \* the AudioContext's connections, pairs <<from id, to id>>
    voices   \* per voice under construction: the caller's position, its note, its handles

vars == <<clock, nodes, edges, voices>>

(***************************************************************************)
(* Bounds of the model.                                                    *)
(***************************************************************************)
\* note start times are 0, 1000, .., MaxStart * 1000 ms
MaxStart == 1
\* the clock runs over 0, 500, .., MaxClock * 500 ms
MaxClock == 2

(***************************************************************************)
(* Option<T>: None is the empty sequence, Some(x) the sequence <<x>>.      *)
(***************************************************************************)
None == <<>>

Some(x) == <<x>>

unwrap_or(o, d) == IF o = None THEN d ELSE o[1]

(***************************************************************************)
(* The audio context: node creation and connection.                        *)
(***************************************************************************)
\* a freshly created node of the given type; an AudioParam's automation is
\* the sequence `events` (the gain of a gain node, the frequency of a biquad)
Node(type) ==
    [type |-> type, ftype |-> "none", frequency |-> 0, q |-> 0,
     events |-> <<>>, starts |-> <<>>, stops |-> <<>>,
     loop |-> FALSE, loop_start |-> 0, loop_end |-> 0]

\* context.create_oscillator / create_gain / create_buffer_source
create_node(ctx, type) == [ctx EXCEPT !.nodes = Append(@, Node(type))]

\* the id of the node the next create_node makes
next_id(ctx) == Len(ctx.nodes) + 1

\* a.connect(b)
connect(ctx, from, to) == [ctx EXCEPT !.edges = @ \cup {<<from, to>>}]

\* param.set_value_at_time / linear_ramp_to_value_at_time /
\* exponential_ramp_to_value_at_time: one automation event
Event(kind, value, time) == [kind |-> kind, value |-> value, time |-> time]

(***************************************************************************)
(* Synth                                                                   *)
(***************************************************************************)
\* Synth::new: an oscillator and a gain node
Synth_new(ctx) ==
    LET c1 == create_node(ctx, "oscillator")
        c2 == create_node(c1, "gain")
    IN  [ctx |-> c2, oscillator |-> next_id(ctx), envelope |-> next_id(c1)]

\* mutant: the sustain floor 0.0001 is left out of the decay target
Synth_set_adsr_nofloor(t, adsr, velocity, duration) ==
    LET attack  == unwrap_or(adsr.attack, 1)
        decay   == unwrap_or(adsr.decay, 50)
        sustain == unwrap_or(adsr.sustain, 60000)
        release == unwrap_or(adsr.release, 10)
    IN  << Event("set", 0, t),
           Event("linear", velocity * 100000, t + attack),
           Event("exponential", sustain * velocity, t + attack + decay),
           Event("exponential", 1, t + duration + release) >>

\* Synth::set_adsr: the events scheduled on envelope.gain(), in call order
Synth_set_adsr(t, adsr, velocity, duration) ==
    LET attack  == unwrap_or(adsr.attack, 1)
        decay   == unwrap_or(adsr.decay, 50)
        sustain == unwrap_or(adsr.sustain, 60000)
        release == unwrap_or(adsr.release, 10)
    IN  << Event("set", 0, t),
           Event("linear", velocity * 100000, t + attack),
           Event("exponential", (sustain + 10) * velocity, t + attack + decay),
           Event("exponential", 1, t + duration + release) >>

\* mutant: the stop is scheduled relative to the clock, not to t
Synth_play_relative(oscillator, now, t, message, release) ==
    [oscillator EXCEPT
        !.starts = Append(@, [when |-> now, offset |-> 0]),
        !.stops  = Append(@, now + message.duration + release)]

\* Synth::play: oscillator.start() starts at the context's current time `now`
Synth_play(oscillator, now, t, message, release) ==
    [oscillator EXCEPT
        !.starts = Append(@, [when |-> now, offset |-> 0]),
        !.stops  = Append(@, t + message.duration + release)]

\* context.create_biquad_filter, set_type, frequency().set_value, q().set_value
create_biquad(ctx, ftype, f) ==
    [ctx EXCEPT !.nodes = Append(@, [Node("biquad") EXCEPT
        !.ftype = ftype, !.frequency = f.frequency, !.q = f.resonance])]

\* Synth::set_filters, first half: the filters built, as [ctx, filters]
Synth_build_filters(ctx, message) ==
    IF message.bpf.frequency > 0
    THEN [ctx |-> create_biquad(ctx, "bandpass", message.bpf), filters |-> <<next_id(ctx)>>]
    ELSE IF message.lpf.frequency > 0
    THEN [ctx |-> create_biquad(ctx, "lowpass", message.lpf), filters |-> <<next_id(ctx)>>]
    ELSE IF message.hpf.frequency > 0
    THEN [ctx |-> create_biquad(ctx, "highpass", message.hpf), filters |-> <<next_id(ctx)>>]
    ELSE [ctx |-> ctx, filters |-> <<>>]

\* Synth::set_filters, second half: the wiring
Synth_wire_filters(ctx, oscillator, envelope, filters) ==
    IF filters # <<>>
    THEN connect(connect(ctx, oscillator, filters[1]), filters[Len(filters)], envelope)
    ELSE connect(ctx, oscillator, envelope)

\* Synth::set_filters
Synth_set_filters(ctx, oscillator, envelope, message) ==
    LET built == Synth_build_filters(ctx, message)
    IN  [ctx |-> Synth_wire_filters(built.ctx, oscillator, envelope, built.filters),
         filters |-> built.filters]

(***************************************************************************)
(* Sampler                                                                 *)
(***************************************************************************)
\* Sampler::new: a buffer source and a gain node
Sampler_new(ctx) ==
    LET c1 == create_node(ctx, "buffer_source")
        c2 == create_node(c1, "gain")
    IN  [ctx |-> c2, sample |-> next_id(ctx), envelope |-> next_id(c1)]

\* mutant: the hold before the release is issued at t, not at t + duration
Sampler_set_adsr_holdearly(t, adsr, velocity, duration) ==
    LET attack  == unwrap_or(adsr.attack, 1)
        decay   == unwrap_or(adsr.decay, 1)
        sustain == unwrap_or(adsr.sustain, 100000)
        release == unwrap_or(adsr.release, 10)
    IN  << Event("set", 0, t),
           Event("linear", velocity * 100000, t + attack),
           Event("linear", (sustain + 1) * velocity, t + attack + decay),
           Event("set", (sustain + 1) * velocity, t),
           Event("linear", 0, t + duration + release) >>

\* Sampler::set_adsr: the events scheduled on envelope.gain(), in call order
Sampler_set_adsr(t, adsr, velocity, duration) ==
    LET attack  == unwrap_or(adsr.attack, 1)
        decay   == unwrap_or(adsr.decay, 1)
        sustain == unwrap_or(adsr.sustain, 100000)
        release == unwrap_or(adsr.release, 10)
    IN  << Event("set", 0, t),
           Event("linear", velocity * 100000, t + attack),
           Event("linear", (sustain + 1) * velocity, t + attack + decay),
           Event("set", (sustain + 1) * velocity, t + duration),
           Event("linear", 0, t + duration + release) >>

\* Sampler::play, the (start_at, stop_at) pair computed before the loop test
Sampler_start_stop(t, message, buffer_duration) ==
    IF message.speed < 0
    THEN <<buffer_duration, t + message.duration + 200>>
    ELSE <<(message.begin * buffer_duration) \div 10,
           t + message.duration + unwrap_or(message.adsr.release, 10)>>

\* mutant: the speed test comes first, the loop is only looked at going forward
Sampler_play_speedfirst(sample, t, message, release) ==
    LET pair == Sampler_start_stop(t, message, release)
    IN  IF message.looper.is_loop > 0 /\ ~(message.speed < 0)
        THEN [sample EXCEPT
                !.loop = TRUE,
                !.loop_start = message.looper.loop_start,
                !.loop_end = message.looper.loop_end,
                !.starts = Append(@, [when |-> t, offset |-> message.looper.loop_start]),
                !.stops = Append(@, t + message.duration
                                      + unwrap_or(message.adsr.release, 10))]
        ELSE [sample EXCEPT
                !.starts = Append(@, [when |-> t, offset |-> pair[1]]),
                !.stops = Append(@, pair[2])]

\* mutant: the reverse tail is the release, as in forward playback
Sampler_play_reverserelease(sample, t, message, release) ==
    LET rel == unwrap_or(message.adsr.release, 10)
    IN  IF message.looper.is_loop > 0
        THEN [sample EXCEPT
                !.loop = TRUE,
                !.loop_start = message.looper.loop_start,
                !.loop_end = message.looper.loop_end,
                !.starts = Append(@, [when |-> t, offset |-> message.looper.loop_start]),
                !.stops = Append(@, t + message.duration + rel)]
        ELSE [sample EXCEPT
                !.starts = Append(@, [when |-> t, offset |->
                    IF message.speed < 0 THEN release
                    ELSE (message.begin * release) \div 10]),
                !.stops = Append(@, t + message.duration + rel)]

\* mutant: forward and loop playback stop at t + duration, without the release
Sampler_play_norelease(sample, t, message, release) ==
    IF message.looper.is_loop > 0
    THEN [sample EXCEPT
            !.loop = TRUE,
            !.loop_start = message.looper.loop_start,
            !.loop_end = message.looper.loop_end,
            !.starts = Append(@, [when |-> t, offset |-> message.looper.loop_start]),
            !.stops = Append(@, t + message.duration)]
    ELSE [sample EXCEPT
            !.starts = Append(@, [when |-> t, offset |->
                IF message.speed < 0 THEN release
                ELSE (message.begin * release) \div 10]),
            !.stops = Append(@, IF message.speed < 0
                                THEN t + message.duration + 200
                                ELSE t + message.duration)]

\* Sampler::play: the third argument is the buffer's duration
Sampler_play(sample, t, message, release) ==
    LET buffer_duration == release
        pair == Sampler_start_stop(t, message, buffer_duration)
    IN  IF message.looper.is_loop > 0
        THEN LET looped == [sample EXCEPT
                                !.loop = TRUE,
                                !.loop_start = message.looper.loop_start,
                                !.loop_end = message.looper.loop_end]
             IN  [looped EXCEPT
                    !.starts = Append(@, [when |-> t, offset |-> looped.loop_start]),
                    !.stops = Append(@, t + message.duration
                                          + unwrap_or(message.adsr.release, 10))]
        ELSE [sample EXCEPT
                !.starts = Append(@, [when |-> t, offset |-> pair[1]]),
                !.stops = Append(@, pair[2])]

\* mutant: lowpass is tested before bandpass
Sampler_build_filters_lowfirst(ctx, message) ==
    IF message.lpf.frequency > 0
    THEN [ctx |-> create_biquad(ctx, "lowpass", message.lpf), filters |-> <<next_id(ctx)>>]
    ELSE IF message.bpf.frequency > 0
    THEN [ctx |-> create_biquad(ctx, "bandpass", message.bpf), filters |-> <<next_id(ctx)>>]
    ELSE IF message.hpf.frequency > 0
    THEN [ctx |-> create_biquad(ctx, "highpass", message.hpf), filters |-> <<next_id(ctx)>>]
    ELSE [ctx |-> ctx, filters |-> <<>>]

\* Sampler::set_filters, first half: the filters built, as [ctx, filters]
Sampler_build_filters(ctx, message) ==
    IF message.bpf.frequency > 0
    THEN [ctx |-> create_biquad(ctx, "bandpass", message.bpf), filters |-> <<next_id(ctx)>>]
    ELSE IF message.lpf.frequency > 0
    THEN [ctx |-> create_biquad(ctx, "lowpass", message.lpf), filters |-> <<next_id(ctx)>>]
    ELSE IF message.hpf.frequency > 0
    THEN [ctx |-> create_biquad(ctx, "highpass", message.hpf), filters |-> <<next_id(ctx)>>]
    ELSE [ctx |-> ctx, filters |-> <<>>]

\* mutant: the source stays connected to the gain stage beside the filter
Sampler_wire_filters_bypass(ctx, sample, envelope, filters) ==
    IF filters # <<>>
    THEN connect(connect(connect(ctx, sample, filters[1]),
                         filters[Len(filters)], envelope), sample, envelope)
    ELSE connect(ctx, sample, envelope)

\* Sampler::set_filters, second half: the wiring
Sampler_wire_filters(ctx, sample, envelope, filters) ==
    IF filters # <<>>
    THEN connect(connect(ctx, sample, filters[1]), filters[Len(filters)], envelope)
    ELSE connect(ctx, sample, envelope)

\* Sampler::set_filters
Sampler_set_filters(ctx, sample, envelope, message) ==
    LET built == Sampler_build_filters(ctx, message)
    IN  [ctx |-> Sampler_wire_filters(built.ctx, sample, envelope, built.filters),
         filters |-> built.filters]

(***************************************************************************)
(* apply_filter_adsr                                                       *)
(***************************************************************************)
\* 2^k for a natural k
RECURSIVE Pow2(_)
Pow2(k) == IF k <= 0 THEN 1 ELSE 2 * Pow2(k - 1)

\* 2f32.powf(h / 2) * freq for an integer h (an exponent in half octaves):
\* 2^(h/2) = 2^q * sqrt(2)^r with h = 2q + r, r in {0, 1}, sqrt(2) = 1.4142
powf_times(h, freq) ==
    LET q == h \div 2
        r == h % 2
        m == IF r = 1 THEN (freq * 14142) \div 10000 ELSE freq
    IN  IF q >= 0 THEN m * Pow2(q) ELSE m \div Pow2(0 - q)

\* f32::clamp
clamp(x, lo, hi) == IF x < lo THEN lo ELSE IF x > hi THEN hi ELSE x

\* mutant: min and max are not clamped
apply_filter_adsr_noclamp(filter_node, message, filter, now) ==
    LET env == CASE filter = "lowpass" -> message.lpenv
                 [] filter = "highpass" -> message.hpenv
                 [] filter = "bandpass" -> message.bpenv
                 [] OTHER -> message.lpenv
        freq == CASE filter = "lowpass" -> message.lpf.frequency
                  [] filter = "highpass" -> message.hpf.frequency
                  [] filter = "bandpass" -> message.bpf.frequency
                  [] OTHER -> 8000
        depth == 2 * unwrap_or(env.env, 1)
        offset == depth \div 2
        min == powf_times(0 - offset, freq)
        max == powf_times(depth - offset, freq)
        range == max - min
        peak == min + range
        sustain_level == min + (unwrap_or(env.sustain, 10) * range) \div 10
    IN  [filter_node EXCEPT !.events = @ \o
          << Event("set", min, now),
             Event("linear", peak, now + unwrap_or(env.attack, 10)),
             Event("linear", sustain_level,
                   now + unwrap_or(env.attack, 10) + unwrap_or(env.decay, 10)),
             Event("linear", min, now + message.duration + unwrap_or(env.release, 10)) >>]

\* apply_filter_adsr: the events scheduled on filter_node.frequency().
\* `depth` is env.env in half octaves, so that offset = env * 0.5 is an integer
apply_filter_adsr(filter_node, message, filter, now) ==
    LET env == CASE filter = "lowpass" -> message.lpenv
                 [] filter = "highpass" -> message.hpenv
                 [] filter = "bandpass" -> message.bpenv
                 [] OTHER -> message.lpenv
        freq == CASE filter = "lowpass" -> message.lpf.frequency
                  [] filter = "highpass" -> message.hpf.frequency
                  [] filter = "bandpass" -> message.bpf.frequency
                  [] OTHER -> 8000
        depth == 2 * unwrap_or(env.env, 1)
        offset == depth \div 2
        min == clamp(powf_times(0 - offset, freq), 0, 20000)
        max == clamp(powf_times(depth - offset, freq), 0, 20000)
        range == max - min
        peak == min + range
        sustain_level == min + (unwrap_or(env.sustain, 10) * range) \div 10
    IN  [filter_node EXCEPT !.events = @ \o
          << Event("set", min, now),
             Event("linear", peak, now + unwrap_or(env.attack, 10)),
             Event("linear", sustain_level,
                   now + unwrap_or(env.attack, 10) + unwrap_or(env.decay, 10)),
             Event("linear", min, now + message.duration + unwrap_or(env.release, 10)) >>]

(***************************************************************************)
(* Notes: the inputs of a voice's construction.  A note is the start time  *)
(* t, the message, the velocity handed to set_adsr and the third argument  *)
(* of play (the release for a Synth, the buffer's duration for a Sampler). *)
(***************************************************************************)
StartTimes == {k * 1000 : k \in 0..MaxStart}

NoFilter == [frequency |-> 0, resonance |-> 0]

DefaultFilterADSR ==
    [attack |-> None, decay |-> None, sustain |-> None, release |-> None, env |-> None]

\* a filter envelope no filter of the examples shares with another
DecoyFilterADSR ==
    [attack |-> Some(7), decay |-> Some(8), sustain |-> Some(3), release |-> Some(9),
     env |-> Some(4)]

DefaultADSR == [attack |-> None, decay |-> None, sustain |-> None, release |-> None]

NoLoop == [is_loop |-> 0, loop_start |-> 0, loop_end |-> 0]

ADSRs ==
    [attack : {None, Some(100)}, decay : {None, Some(100)},
     sustain : {None, Some(50000)}, release : {None, Some(300)}]

Loopers == {NoLoop, [is_loop |-> 1, loop_start |-> 100, loop_end |-> 400]}

FilterADSRs ==
    { [attack |-> a[1], decay |-> a[2], release |-> a[3], sustain |-> s, env |-> e] :
        a \in {<<None, None, None>>, <<Some(20), Some(30), Some(40)>>},
        s \in {None, Some(5), Some(20)},
        e \in {None, Some(2), Some(0 - 2)} }

\* the three filter envelopes of a message: one kind gets e, the others the decoy
FilterADSRTriples ==
    { [lpenv |-> IF k = 1 THEN e ELSE DecoyFilterADSR,
       hpenv |-> IF k = 2 THEN e ELSE DecoyFilterADSR,
       bpenv |-> IF k = 3 THEN e ELSE DecoyFilterADSR] : e \in FilterADSRs, k \in 1..3 }

Message(duration, begin, speed, looper, adsr, lpf, hpf, bpf, envs) ==
    [duration |-> duration, begin |-> begin, speed |-> speed, looper |-> looper,
     adsr |-> adsr, lpf |-> lpf, hpf |-> hpf, bpf |-> bpf,
     lpenv |-> envs.lpenv, hpenv |-> envs.hpenv, bpenv |-> envs.bpenv]

NoEnvs == [lpenv |-> DefaultFilterADSR, hpenv |-> DefaultFilterADSR,
           bpenv |-> DefaultFilterADSR]

\* messages that vary the timing, the playback mode and the amplitude envelope;
\* duration 0 and begin 1.5 are out of range
PlaybackMessages(kind) ==
    { Message(d, b, s, l, a, NoFilter, NoFilter, NoFilter, NoEnvs) :
        d \in {0, 1, 250},
        b \in IF kind = "Sampler" THEN {0, 5, 15} ELSE {0},
        s \in IF kind = "Sampler" THEN {0 - 1, 0, 1} ELSE {1},
        l \in IF kind = "Sampler" THEN Loopers ELSE {NoLoop},
        a \in ADSRs }

\* messages that vary the filters and their envelopes
FilterMessages ==
    { Message(250, 0, 1, NoLoop, DefaultADSR,
              [frequency |-> lf, resonance |-> 2], [frequency |-> hf, resonance |-> 3],
              [frequency |-> bf, resonance |-> 1], envs) :
        lf \in {0, 1000, 15000}, hf \in {0, 500}, bf \in {0, 200},
        envs \in FilterADSRTriples }

Kinds == {"Synth", "Sampler"}

Note(kind, t, message, velocity, arg3) ==
    [kind |-> kind, t |-> t, message |-> message, velocity |-> velocity, arg3 |-> arg3]

Notes ==
    UNION { { Note(kind, t, m, v, 2000) :
                t \in StartTimes, m \in PlaybackMessages(kind), v \in {5, 10} }
            \cup { Note(kind, t, m, 10, 2000) : t \in StartTimes, m \in FilterMessages } :
            kind \in Kinds }

\* the notes of two voices built side by side
PairNotes ==
    { Note(kind, t,
           Message(250, 5, s, NoLoop, DefaultADSR, NoFilter, NoFilter,
                   [frequency |-> bf, resonance |-> 1], NoEnvs), 10, 2000) :
        kind \in Kinds, t \in StartTimes, s \in {0 - 1, 1}, bf \in {0, 200} }

(***************************************************************************)
(* The construction of a voice, step by step.  A voice record holds the    *)
(* caller's position `pc`, the note, and the handles the caller keeps: the *)
(* voice's source and envelope nodes and the filters set_filters returned. *)
(***************************************************************************)
\* the engine's control flow: new, set_filters, apply_filter_adsr, set_adsr, play
StepAfter(pc) ==
    CASE pc = "new" -> "set_filters"
      [] pc = "set_filters" -> "apply_filter_adsr"
      [] pc = "apply_filter_adsr" -> "set_adsr"
      [] pc = "set_adsr" -> "play"
      [] pc = "play" -> "done"

\* a voice not yet constructed
Fresh(note) ==
    [pc |-> "new", note |-> note, source |-> 0, envelope |-> 0, filters |-> <<>>,
     played_at |-> 0]

EmptyCtx == [nodes |-> <<>>, edges |-> {}]

Ctx == [nodes |-> nodes, edges |-> edges]

StepSynthNew(ctx, vc) ==
    LET r == Synth_new(ctx)
    IN  [ctx |-> r.ctx,
         vc |-> [vc EXCEPT !.pc = StepAfter(@), !.source = r.oscillator,
                           !.envelope = r.envelope]]

StepSamplerNew(ctx, vc) ==
    LET r == Sampler_new(ctx)
    IN  [ctx |-> r.ctx,
         vc |-> [vc EXCEPT !.pc = StepAfter(@), !.source = r.sample,
                           !.envelope = r.envelope]]

StepSynthSetFilters(ctx, vc) ==
    LET r == Synth_set_filters(ctx, vc.source, vc.envelope, vc.note.message)
    IN  [ctx |-> r.ctx, vc |-> [vc EXCEPT !.pc = StepAfter(@), !.filters = r.filters]]

StepSamplerSetFilters(ctx, vc) ==
    LET r == Sampler_set_filters(ctx, vc.source, vc.envelope, vc.note.message)
    IN  [ctx |-> r.ctx, vc |-> [vc EXCEPT !.pc = StepAfter(@), !.filters = r.filters]]

\* apply_filter_adsr on every filter set_filters returned, with the filter's own type
\* as `filter` and the note's start time as `now`
StepApplyFilterAdsr(ctx, vc) ==
    LET mine == {vc.filters[i] : i \in 1..Len(vc.filters)}
    IN  [ctx |-> [ctx EXCEPT !.nodes = [i \in DOMAIN ctx.nodes |->
                    IF i \in mine
                    THEN apply_filter_adsr(ctx.nodes[i], vc.note.message,
                                           ctx.nodes[i].ftype, vc.note.t)
                    ELSE ctx.nodes[i]]],
         vc |-> [vc EXCEPT !.pc = StepAfter(@)]]

StepSynthSetAdsr(ctx, vc) ==
    [ctx |-> [ctx EXCEPT !.nodes[vc.envelope].events = @ \o
                Synth_set_adsr(vc.note.t, vc.note.message.adsr, vc.note.velocity,
                               vc.note.message.duration)],
     vc |-> [vc EXCEPT !.pc = StepAfter(@)]]

StepSamplerSetAdsr(ctx, vc) ==
    [ctx |-> [ctx EXCEPT !.nodes[vc.envelope].events = @ \o
                Sampler_set_adsr(vc.note.t, vc.note.message.adsr, vc.note.velocity,
                                 vc.note.message.duration)],
     vc |-> [vc EXCEPT !.pc = StepAfter(@)]]

StepSynthPlay(ctx, vc, now) ==
    [ctx |-> [ctx EXCEPT !.nodes[vc.source] =
                Synth_play(@, now, vc.note.t, vc.note.message, vc.note.arg3)],
     vc |-> [vc EXCEPT !.pc = StepAfter(@), !.played_at = now]]

StepSamplerPlay(ctx, vc, now) ==
    [ctx |-> [ctx EXCEPT !.nodes[vc.source] =
                Sampler_play(@, vc.note.t, vc.note.message, vc.note.arg3)],
     vc |-> [vc EXCEPT !.pc = StepAfter(@), !.played_at = now]]

(***************************************************************************)
(* Actions                                                                 *)
(***************************************************************************)
At(v, kind, pc) == voices[v].pc = pc /\ voices[v].note.kind = kind

Commit(v, r) ==
    /\ nodes' = r.ctx.nodes
    /\ edges' = r.ctx.edges
    /\ voices' = [voices EXCEPT ![v] = r.vc]
    /\ UNCHANGED clock

NewSynth(v) == At(v, "Synth", "new") /\ Commit(v, StepSynthNew(Ctx, voices[v]))

NewSampler(v) == At(v, "Sampler", "new") /\ Commit(v, StepSamplerNew(Ctx, voices[v]))

SynthSetFilters(v) ==
    At(v, "Synth", "set_filters") /\ Commit(v, StepSynthSetFilters(Ctx, voices[v]))

SamplerSetFilters(v) ==
    At(v, "Sampler", "set_filters") /\ Commit(v, StepSamplerSetFilters(Ctx, voices[v]))

ApplyFilterAdsr(v) ==
    voices[v].pc = "apply_filter_adsr" /\ Commit(v, StepApplyFilterAdsr(Ctx, voices[v]))

SynthSetAdsr(v) ==
    At(v, "Synth", "set_adsr") /\ Commit(v, StepSynthSetAdsr(Ctx, voices[v]))

SamplerSetAdsr(v) ==
    At(v, "Sampler", "set_adsr") /\ Commit(v, StepSamplerSetAdsr(Ctx, voices[v]))

SynthPlay(v) ==
    At(v, "Synth", "play") /\ Commit(v, StepSynthPlay(Ctx, voices[v], clock))

SamplerPlay(v) ==
    At(v, "Sampler", "play") /\ Commit(v, StepSamplerPlay(Ctx, voices[v], clock))

\* the audio clock advances while a voice is still under construction
Tick ==
    /\ clock < MaxClock * 500
    /\ \E v \in DOMAIN voices : voices[v].pc # "done"
    /\ clock' = clock + 500
    /\ UNCHANGED <<nodes, edges, voices>>

Init ==
    /\ clock = 0
    /\ nodes = <<>>
    /\ edges = {}
    /\ voices \in [1..1 -> {Fresh(n) : n \in Notes}]

InitPair ==
    /\ clock = 0
    /\ nodes = <<>>
    /\ edges = {}
    /\ voices \in [1..2 -> {Fresh(n) : n \in PairNotes}]

Next ==
    \/ Tick
    \/ \E v \in DOMAIN voices : NewSynth(v)
    \/ \E v \in DOMAIN voices : NewSampler(v)
    \/ \E v \in DOMAIN voices : SynthSetFilters(v)
    \/ \E v \in DOMAIN voices : SamplerSetFilters(v)
    \/ \E v \in DOMAIN voices : ApplyFilterAdsr(v)
    \/ \E v \in DOMAIN voices : SynthSetAdsr(v)
    \/ \E v \in DOMAIN voices : SamplerSetAdsr(v)
    \/ \E v \in DOMAIN voices : SynthPlay(v)
    \/ \E v \in DOMAIN voices : SamplerPlay(v)

\* one voice, over all the notes
Spec == Init /\ [][Next]_vars

\* two voices built side by side in any interleaving
SpecPair == InitPair /\ [][Next]_vars

(***************************************************************************)
(* Vocabulary of the properties                                            *)
(***************************************************************************)
PcIndex(pc) ==
    CASE pc = "new" -> 0
      [] pc = "set_filters" -> 1
      [] pc = "apply_filter_adsr" -> 2
      [] pc = "set_adsr" -> 3
      [] pc = "play" -> 4
      [] pc = "done" -> 5

\* the voice's caller has completed the step `step`
Past(vc, step) == PcIndex(vc.pc) > PcIndex(step)

Range(seq) == {seq[i] : i \in 1..Len(seq)}

Biquads == {i \in DOMAIN nodes : nodes[i].type = "biquad"}

FilterKinds == {"bandpass", "lowpass", "highpass"}

Rank(k) == CASE k = "bandpass" -> 1 [] k = "lowpass" -> 2 [] k = "highpass" -> 3

FilterParam(m, k) ==
    CASE k = "bandpass" -> m.bpf [] k = "lowpass" -> m.lpf [] k = "highpass" -> m.hpf

FilterEnvOf(m, k) ==
    CASE k = "bandpass" -> m.bpenv [] k = "lowpass" -> m.lpenv [] k = "highpass" -> m.hpenv

Qualifying(m) == {k \in FilterKinds : FilterParam(m, k).frequency > 0}

Monotone(events) ==
    \A i \in 1..(Len(events) - 1) : events[i].time <= events[i + 1].time

(***************************************************************************)
(* C1                                                                      *)
(***************************************************************************)
\* C1: once set_filters has run, at most one filter exists; it is of the first
\* kind in the order bandpass, lowpass, highpass whose frequency is > 0, with
\* that kind's frequency and resonance; no other filter was created; and when
\* no kind qualifies the returned list is empty.
C1_FilterPriority ==
    \A v \in DOMAIN voices :
        Past(voices[v], "set_filters") =>
            LET m  == voices[v].note.message
                fs == voices[v].filters
            IN  /\ Cardinality(Biquads) <= 1
                /\ Range(fs) = Biquads
                /\ Len(fs) = Cardinality(Biquads)
                /\ Qualifying(m) = {} => fs = <<>>
                /\ Qualifying(m) # {} =>
                     \E k \in Qualifying(m) :
                        /\ \A j \in Qualifying(m) : Rank(k) <= Rank(j)
                        /\ Len(fs) = 1
                        /\ nodes[fs[1]].ftype = k
                        /\ nodes[fs[1]].frequency = FilterParam(m, k).frequency
                        /\ nodes[fs[1]].q = FilterParam(m, k).resonance

\* a Sampler whose bandpass and lowpass both qualify got a bandpass alone
C1_Witness ==
    \E v \in DOMAIN voices :
        /\ voices[v].pc = "done"
        /\ voices[v].note.kind = "Sampler"
        /\ voices[v].note.message.bpf.frequency = 200
        /\ voices[v].note.message.lpf.frequency = 1000
        /\ Len(voices[v].filters) = 1
        /\ nodes[voices[v].filters[1]].ftype = "bandpass"
        /\ Cardinality(Biquads) = 1

(***************************************************************************)
(* C2                                                                      *)
(***************************************************************************)
\* C2: after set_filters on a fresh voice the source reaches the gain stage
\* by exactly one path: through the filter when one was built (and then not
\* directly), directly when all three frequencies are 0.
C2_SinglePath ==
    \A v \in DOMAIN voices :
        Past(voices[v], "set_filters") =>
            LET s  == voices[v].source
                g  == voices[v].envelope
                fs == voices[v].filters
            IN  /\ (fs = <<>>) <=> (Qualifying(voices[v].note.message) = {})
                /\ fs = <<>> => edges = {<<s, g>>}
                /\ fs # <<>> => /\ edges = {<<s, fs[1]>>, <<fs[1], g>>}
                                /\ <<s, g>> \notin edges

\* a Sampler with a filter, wired through it
C2_Witness ==
    \E v \in DOMAIN voices :
        /\ voices[v].pc = "apply_filter_adsr"
        /\ voices[v].note.kind = "Sampler"
        /\ voices[v].filters # <<>>
        /\ <<voices[v].source, voices[v].filters[1]>> \in edges
        /\ <<voices[v].filters[1], voices[v].envelope>> \in edges

(***************************************************************************)
(* C3                                                                      *)
(***************************************************************************)
\* C3: Sampler::play schedules exactly one start and one stop, and a loop
\* wins over the speed: with is_loop > 0, whatever the speed, looping is on
\* with loop_start/loop_end, the start is at t from offset loop_start and the
\* stop at t + duration + release (0.01 s when absent).
C3_LoopPrecedence ==
    \A v \in DOMAIN voices :
        voices[v].note.kind = "Sampler" =>
            LET n   == voices[v].note
                m   == n.message
                src == nodes[voices[v].source]
            IN  /\ (Past(voices[v], "new") /\ ~Past(voices[v], "play")) =>
                     (src.starts = <<>> /\ src.stops = <<>>)
                /\ Past(voices[v], "play") =>
                     /\ Len(src.starts) = 1
                     /\ Len(src.stops) = 1
                     /\ src.loop = (m.looper.is_loop > 0)
                     /\ m.looper.is_loop > 0 =>
                          /\ src.loop_start = m.looper.loop_start
                          /\ src.loop_end = m.looper.loop_end
                          /\ src.starts[1] = [when |-> n.t, offset |-> m.looper.loop_start]
                          /\ src.stops[1] = n.t + m.duration
                                + (IF m.adsr.release = None THEN 10 ELSE m.adsr.release[1])

\* a looping note played backwards: the loop branch ran
C3_Witness ==
    \E v \in DOMAIN voices :
        /\ voices[v].pc = "done"
        /\ voices[v].note.kind = "Sampler"
        /\ voices[v].note.message.looper.is_loop = 1
        /\ voices[v].note.message.speed < 0
        /\ nodes[voices[v].source].loop
        /\ nodes[voices[v].source].starts[1].offset = 100

(***************************************************************************)
(* C4                                                                      *)
(***************************************************************************)
\* C4: with looping off, Sampler::play with speed < 0 starts at t from the
\* buffer's duration and stops at t + duration + 0.2 s whatever the release;
\* with speed >= 0 it starts at t from begin * buffer duration and stops at
\* t + duration + release (0.01 s when absent).
C4_ReverseForward ==
    \A v \in DOMAIN voices :
        (/\ voices[v].note.kind = "Sampler"
         /\ Past(voices[v], "play")
         /\ voices[v].note.message.looper.is_loop = 0) =>
            LET n   == voices[v].note
                m   == n.message
                src == nodes[voices[v].source]
                buf == n.arg3
            IN  /\ m.speed < 0 =>
                     /\ src.starts = <<[when |-> n.t, offset |-> buf]>>
                     /\ src.stops = <<n.t + m.duration + 200>>
                /\ m.speed >= 0 =>
                     /\ src.starts = <<[when |-> n.t, offset |-> (m.begin * buf) \div 10]>>
                     /\ src.stops = <<n.t + m.duration
                            + (IF m.adsr.release = None THEN 10 ELSE m.adsr.release[1])>>

\* a reverse note with a release of 0.3 s, stopped 0.2 s after its duration
C4_Witness ==
    \E v \in DOMAIN voices :
        /\ voices[v].pc = "done"
        /\ voices[v].note.kind = "Sampler"
        /\ voices[v].note.message.looper.is_loop = 0
        /\ voices[v].note.message.speed < 0
        /\ voices[v].note.message.adsr.release = Some(300)
        /\ voices[v].note.message.duration = 250
        /\ nodes[voices[v].source].stops = <<voices[v].note.t + 450>>

(***************************************************************************)
(* C5                                                                      *)
(***************************************************************************)
\* the field of an ADSR, or the default when it is absent
Given(o, default) == IF o = None THEN default ELSE o[1]

\* C5: set_adsr issues the breakpoints of its voice kind in the fixed order,
\* each absent field replaced by the kind's default: tone generator
\* (t,0,set) (t+A,v,linear) (t+A+D,(S+0.0001)v,exponential)
\* (t+d+R,0.000001,exponential) with defaults 0.001, 0.05, 0.6, 0.01; sample
\* player (t,0,set) (t+A,v,linear) (t+A+D,(S+0.00001)v,linear)
\* (t+d,(S+0.00001)v,set) (t+d+R,0,linear) with defaults 0.001, 0.001, 1.0,
\* 0.01; and with every field absent the times and values are the listed ones.
C5_Breakpoints ==
    \A v \in DOMAIN voices :
        Past(voices[v], "set_adsr") =>
            LET n  == voices[v].note
                a  == n.message.adsr
                d  == n.message.duration
                t  == n.t
                ev == nodes[voices[v].envelope].events
                vel == n.velocity * 100000
            IN  /\ n.kind = "Synth" =>
                     LET A == Given(a.attack, 1)
                         D == Given(a.decay, 50)
                         S == Given(a.sustain, 60000)
                         R == Given(a.release, 10)
                     IN  /\ ev = << [kind |-> "set", value |-> 0, time |-> t],
                                    [kind |-> "linear", value |-> vel, time |-> t + A],
                                    [kind |-> "exponential",
                                     value |-> (S + 10) * n.velocity, time |-> t + A + D],
                                    [kind |-> "exponential", value |-> 1,
                                     time |-> t + d + R] >>
                         /\ a = DefaultADSR =>
                              /\ [i \in 1..4 |-> ev[i].time] = <<t, t + 1, t + 51, t + d + 10>>
                              /\ [i \in 1..4 |-> ev[i].value]
                                    = <<0, vel, 60010 * n.velocity, 1>>
                /\ n.kind = "Sampler" =>
                     LET A == Given(a.attack, 1)
                         D == Given(a.decay, 1)
                         S == Given(a.sustain, 100000)
                         R == Given(a.release, 10)
                     IN  /\ ev = << [kind |-> "set", value |-> 0, time |-> t],
                                    [kind |-> "linear", value |-> vel, time |-> t + A],
                                    [kind |-> "linear",
                                     value |-> (S + 1) * n.velocity, time |-> t + A + D],
                                    [kind |-> "set",
                                     value |-> (S + 1) * n.velocity, time |-> t + d],
                                    [kind |-> "linear", value |-> 0, time |-> t + d + R] >>
                         /\ a = DefaultADSR =>
                              /\ [i \in 1..5 |-> ev[i].time]
                                    = <<t, t + 1, t + 2, t + d, t + d + 10>>
                              /\ [i \in 1..5 |-> ev[i].value]
                                    = <<0, vel, 100001 * n.velocity,
                                        100001 * n.velocity, 0>>

\* a tone generator with every ADSR field absent has its four breakpoints
C5_Witness ==
    \E v \in DOMAIN voices :
        /\ voices[v].pc = "play"
        /\ voices[v].note.kind = "Synth"
        /\ voices[v].note.message.adsr = DefaultADSR
        /\ voices[v].note.velocity = 5
        /\ Len(nodes[voices[v].envelope].events) = 4
        /\ nodes[voices[v].envelope].events[3].value = 300050

(***************************************************************************)
(* C6                                                                      *)
(***************************************************************************)
\* velocity in [0,1], duration > 0, attack, decay and release not negative
C6_InRange(n) ==
    /\ n.velocity \in 0..10
    /\ n.message.duration > 0
    /\ Given(n.message.adsr.attack, 1) >= 0
    /\ Given(n.message.adsr.decay, IF n.kind = "Synth" THEN 50 ELSE 1) >= 0
    /\ Given(n.message.adsr.release, 10) >= 0

\* C6 as stated: for every in-range input the times of the gain breakpoints
\* are non-decreasing in the order in which set_adsr issues them.
C6_MonotoneAlways ==
    \A v \in DOMAIN voices :
        (Past(voices[v], "set_adsr") /\ C6_InRange(voices[v].note)) =>
            Monotone(nodes[voices[v].envelope].events)

\* C6, amended: for every in-range input with duration >= attack + decay
\* (given or defaulted) the times of the gain breakpoints are non-decreasing
\* in the order in which set_adsr issues them, for both voice kinds.
C6_MonotoneWhenLongEnough ==
    \A v \in DOMAIN voices :
        (/\ Past(voices[v], "set_adsr")
         /\ C6_InRange(voices[v].note)
         /\ voices[v].note.message.duration >=
                Given(voices[v].note.message.adsr.attack, 1)
                + Given(voices[v].note.message.adsr.decay,
                        IF voices[v].note.kind = "Synth" THEN 50 ELSE 1)) =>
            Monotone(nodes[voices[v].envelope].events)

\* a sample player with attack and decay of 0.1 s and a duration of 0.25 s
C6_Witness ==
    \E v \in DOMAIN voices :
        /\ voices[v].pc = "done"
        /\ voices[v].note.kind = "Sampler"
        /\ voices[v].note.message.duration = 250
        /\ voices[v].note.message.adsr.attack = Some(100)
        /\ voices[v].note.message.adsr.decay = Some(100)
        /\ Len(nodes[voices[v].envelope].events) = 5
        /\ Monotone(nodes[voices[v].envelope].events)

(***************************************************************************)
(* C7                                                                      *)
(***************************************************************************)
\* duration <= 0 or begin outside [0,1]
InvalidMessage(m) == m.duration <= 0 \/ m.begin < 0 \/ m.begin > 10

\* C7: for a message that is out of range no node is ever created or wired
\* and nothing is scheduled.
C7_FailFast ==
    \A v \in DOMAIN voices :
        InvalidMessage(voices[v].note.message) =>
            /\ nodes = <<>>
            /\ edges = {}
            /\ voices[v].source = 0
            /\ voices[v].envelope = 0

(***************************************************************************)
(* C8                                                                      *)
(***************************************************************************)
\* the formulas of the claim: min, max (the peak) and the sustain level of
\* the sweep around `base` with depth `env` octaves and sustain ratio `ratio`
C8_Min(base, env) == clamp(powf_times(0 - env, base), 0, 20000)

C8_Max(base, env) == clamp(powf_times(env, base), 0, 20000)

C8_Formulas(ev, base, env, ratio) ==
    /\ Len(ev) = 4
    /\ ev[1].value = C8_Min(base, env)
    /\ ev[2].value = C8_Max(base, env)
    /\ ev[3].value = C8_Min(base, env)
                        + (ratio * (C8_Max(base, env) - C8_Min(base, env))) \div 10
    /\ ev[4].value = C8_Min(base, env)
    /\ (base = 15000 /\ env = 2) => (ev[1].value = 7500 /\ ev[2].value = 20000)

C8_InBand(ev) == \A i \in 1..Len(ev) : ev[i].value >= 0 /\ ev[i].value <= 20000

\* C8 as stated: for every base >= 0, depth and sustain ratio, min and max
\* are the clamped powers and every value scheduled on the filter's
\* frequency lies in [0, 20000] Hz.
C8_AlwaysInBand ==
    \A v \in DOMAIN voices :
        (Past(voices[v], "apply_filter_adsr") /\ voices[v].filters # <<>>) =>
            LET f   == nodes[voices[v].filters[1]]
                m   == voices[v].note.message
                e   == FilterEnvOf(m, f.ftype)
            IN  FilterParam(m, f.ftype).frequency >= 0 =>
                    /\ C8_Formulas(f.events, FilterParam(m, f.ftype).frequency,
                                   Given(e.env, 1), Given(e.sustain, 10))
                    /\ C8_InBand(f.events)

\* C8, amended: for every base >= 0 and depth, min and max are the clamped
\* powers, the peak is max and the sustain level min + ratio * (max - min);
\* min, the peak and the final min lie in [0, 20000] Hz, and so does the
\* sustain level when the sustain ratio lies in [0, 1].
C8_InBandForUnitRatio ==
    \A v \in DOMAIN voices :
        (Past(voices[v], "apply_filter_adsr") /\ voices[v].filters # <<>>) =>
            LET f   == nodes[voices[v].filters[1]]
                m   == voices[v].note.message
                e   == FilterEnvOf(m, f.ftype)
            IN  FilterParam(m, f.ftype).frequency >= 0 =>
                    /\ C8_Formulas(f.events, FilterParam(m, f.ftype).frequency,
                                   Given(e.env, 1), Given(e.sustain, 10))
                    /\ \A i \in {1, 2, 4} :
                          f.events[i].value >= 0 /\ f.events[i].value <= 20000
                    /\ (Given(e.sustain, 10) >= 0 /\ Given(e.sustain, 10) <= 10) =>
                          C8_InBand(f.events)

\* a lowpass at 15000 Hz swept over two octaves: min 7500, peak clamped to 20000
C8_Witness ==
    \E v \in DOMAIN voices :
        /\ voices[v].pc = "set_adsr"
        /\ voices[v].filters # <<>>
        /\ nodes[voices[v].filters[1]].ftype = "lowpass"
        /\ voices[v].note.message.lpf.frequency = 15000
        /\ voices[v].note.message.lpenv.env = Some(2)
        /\ voices[v].note.message.lpenv.sustain = Some(5)
        /\ nodes[voices[v].filters[1]].events[1].value = 7500
        /\ nodes[voices[v].filters[1]].events[2].value = 20000
        /\ nodes[voices[v].filters[1]].events[3].value = 13750

(***************************************************************************)
(* C9                                                                      *)
(***************************************************************************)
\* what a voice amounts to in a context: its nodes with all that is scheduled
\* on them, and the connections that touch them, by role instead of by id
Role(vc, id) ==
    IF id = vc.source THEN "source"
    ELSE IF id = vc.envelope THEN "envelope"
    ELSE IF id \in Range(vc.filters) THEN "filter"
    ELSE "foreign"

View(ctx, vc) ==
    LET ids == ({vc.source, vc.envelope} \cup Range(vc.filters)) \ {0}
    IN  [pc |-> vc.pc,
         source |-> IF vc.source = 0 THEN <<>> ELSE <<ctx.nodes[vc.source]>>,
         envelope |-> IF vc.envelope = 0 THEN <<>> ELSE <<ctx.nodes[vc.envelope]>>,
         filters |-> [i \in 1..Len(vc.filters) |-> ctx.nodes[vc.filters[i]]],
         wiring |-> { <<Role(vc, e[1]), Role(vc, e[2])>> :
                        e \in {x \in ctx.edges : x[1] \in ids \/ x[2] \in ids} }]

\* the view without the time at which the source was started
WithoutStartTime(view) ==
    [view EXCEPT !.source = [i \in DOMAIN @ |->
        [@[i] EXCEPT !.starts = [j \in DOMAIN @ |-> [@[j] EXCEPT !.when = 0]]]]]

\* the voice of a note built alone, in a context of its own whose clock is 0
AloneStep(st) ==
    LET vc == st.vc
        synth == vc.note.kind = "Synth"
    IN  CASE vc.pc = "new" ->
                IF synth THEN StepSynthNew(st.ctx, vc) ELSE StepSamplerNew(st.ctx, vc)
          [] vc.pc = "set_filters" ->
                IF synth THEN StepSynthSetFilters(st.ctx, vc)
                ELSE StepSamplerSetFilters(st.ctx, vc)
          [] vc.pc = "apply_filter_adsr" -> StepApplyFilterAdsr(st.ctx, vc)
          [] vc.pc = "set_adsr" ->
                IF synth THEN StepSynthSetAdsr(st.ctx, vc)
                ELSE StepSamplerSetAdsr(st.ctx, vc)
          [] vc.pc = "play" ->
                IF synth THEN StepSynthPlay(st.ctx, vc, 0)
                ELSE StepSamplerPlay(st.ctx, vc, 0)

RECURSIVE AloneUntil(_, _)
AloneUntil(st, pc) == IF st.vc.pc = pc THEN st ELSE AloneUntil(AloneStep(st), pc)

Alone(note, pc) ==
    LET st == AloneUntil([ctx |-> EmptyCtx, vc |-> Fresh(note)], pc)
    IN  View(st.ctx, st.vc)

\* C9 as stated: whatever the interleaving and the clock, a voice's start
\* time, stop time, wiring and breakpoints are determined by its own
\* (t, message): two voices built from the same note end up the same.
C9_DeterminedByNote ==
    \A v, w \in DOMAIN voices :
        (/\ voices[v].pc = "done"
         /\ voices[w].pc = "done"
         /\ voices[v].note = voices[w].note) =>
            View(Ctx, voices[v]) = View(Ctx, voices[w])

\* C9, amended: in every interleaving and at every step, each voice's stop
\* time, wiring and breakpoints, and a sample player's start time, are those
\* of building the voice alone, determined by its own (t, message), and no
\* connection joins it to another voice; the tone generator's start time is
\* the clock time at which its play ran, its stop t + duration + release.
C9_IndependentButForStart ==
    \A v \in DOMAIN voices :
        /\ WithoutStartTime(View(Ctx, voices[v]))
              = WithoutStartTime(Alone(voices[v].note, voices[v].pc))
        /\ voices[v].note.kind = "Sampler" =>
              View(Ctx, voices[v]) = Alone(voices[v].note, voices[v].pc)
        /\ (voices[v].note.kind = "Synth" /\ voices[v].pc = "done") =>
              /\ nodes[voices[v].source].starts
                    = <<[when |-> voices[v].played_at, offset |-> 0]>>
              /\ nodes[voices[v].source].stops
                    = <<voices[v].note.t + voices[v].note.message.duration
                        + voices[v].note.arg3>>

\* two tone generators built from the same note, whose play ran at different
\* clock times, both complete
C9_Witness ==
    \E v, w \in DOMAIN voices :
        /\ v # w
        /\ voices[v].pc = "done"
        /\ voices[w].pc = "done"
        /\ voices[v].note.kind = "Synth"
        /\ voices[v].note = voices[w].note
        /\ voices[v].played_at # voices[w].played_at
        /\ voices[v].filters # <<>>

(***************************************************************************)
(* C10                                                                     *)
(***************************************************************************)
\* the time of the last gain breakpoint of the voice
LastBreakpoint(vc) ==
    nodes[vc.envelope].events[Len(nodes[vc.envelope].events)].time

\* C10 as stated: for duration > 0 and release >= 0, in each playback mode,
\* the stop scheduled by Sampler::play is not earlier than the last gain
\* breakpoint issued by Sampler::set_adsr.
C10_StopAfterEnvelope ==
    \A v \in DOMAIN voices :
        (/\ voices[v].note.kind = "Sampler"
         /\ voices[v].pc = "done"
         /\ voices[v].note.message.duration > 0
         /\ Given(voices[v].note.message.adsr.release, 10) >= 0) =>
            /\ LastBreakpoint(voices[v])
                  = voices[v].note.t + voices[v].note.message.duration
                    + Given(voices[v].note.message.adsr.release, 10)
            /\ nodes[voices[v].source].stops[1] >= LastBreakpoint(voices[v])

\* C10, amended: for duration > 0 and release >= 0, the stop scheduled by
\* Sampler::play is not earlier than the last gain breakpoint issued by
\* Sampler::set_adsr in the loop and forward modes, and in the reverse mode
\* when the release is at most 0.2 s.
C10_StopAfterEnvelopeUnlessLongReverse ==
    \A v \in DOMAIN voices :
        (/\ voices[v].note.kind = "Sampler"
         /\ voices[v].pc = "done"
         /\ voices[v].note.message.duration > 0
         /\ Given(voices[v].note.message.adsr.release, 10) >= 0
         /\ \/ voices[v].note.message.looper.is_loop > 0
            \/ voices[v].note.message.speed >= 0
            \/ Given(voices[v].note.message.adsr.release, 10) <= 200) =>
            /\ LastBreakpoint(voices[v])
                  = voices[v].note.t + voices[v].note.message.duration
                    + Given(voices[v].note.message.adsr.release, 10)
            /\ nodes[voices[v].source].stops[1] >= LastBreakpoint(voices[v])

\* a forward note with a release of 0.3 s, stopped when its envelope ends
C10_Witness ==
    \E v \in DOMAIN voices :
        /\ voices[v].note.kind = "Sampler"
        /\ voices[v].pc = "done"
        /\ voices[v].note.message.duration = 250
        /\ voices[v].note.message.looper.is_loop = 0
        /\ voices[v].note.message.speed = 1
        /\ voices[v].note.message.adsr.release = Some(300)
        /\ nodes[voices[v].source].stops[1] = LastBreakpoint(voices[v])

====
